---- MODULE Spec2Model ----
(***************************************************************************)
(* Model of the task pane of src/src/taskpane/taskpane.ts: the scan of a   *)
(* Word document for marked headings (scanAndBuildUI) and the UI it        *)
(* builds.                                                                 *)
(*                                                                         *)
(* Texts are sequences of one-character strings, so that trim, startsWith  *)
(* and substring are computed as the code computes them.  JavaScript runs  *)
(* each piece of code between two awaits to completion: the variable       *)
(* running names the scan whose continuation is executing (0 when the      *)
(* event loop is idle), and events (clicks, answers of the document        *)
(* service) are taken only when it is 0.                                   *)
(*                                                                         *)
(* Only the two explicit context.sync() calls of the source are modelled   *)
(* as round trips; whatever Word.run does on its own after the batch       *)
(* function returns is outside the source and outside the model.           *)
(***************************************************************************)
EXTENDS Integers, Sequences, FiniteSets, TLC

\* ------------------------------------------------------------- bounds
MaxParas == 3
MaxScans == 2
MaxCopies == 1

\* ------------------------------------------------------------- text
EOP == "\r"
Whitespace == {" ", "\t", "\n", EOP}

RECURSIVE TrimStart(_)
TrimStart(t) ==
  IF t # <<>> /\ Head(t) \in Whitespace THEN TrimStart(Tail(t)) ELSE t

RECURSIVE TrimEnd(_)
TrimEnd(t) ==
  IF t # <<>> /\ t[Len(t)] \in Whitespace
  THEN TrimEnd(SubSeq(t, 1, Len(t) - 1))
  ELSE t

\* Mutant of Trim: only the leading whitespace goes.
TrimLeading(t) == TrimStart(t)

Trim(t) == TrimEnd(TrimStart(t))

StartsWith(t, prefix) ==
  /\ Len(t) >= Len(prefix)
  /\ SubSeq(t, 1, Len(prefix)) = prefix

Substring1(t) == SubSeq(t, 2, Len(t))

HeadingPrefix == <<"H", "e", "a", "d", "i", "n", "g">>
ButtonMarker == <<"*">>
LabelMarker == <<"_">>

\* ------------------------------------------------------------- status texts
StatusScanning == "Scanning document..."
StatusNoHeadings == "No headings found in this document."
StatusNoPrompts == "No prompts found (use '*' or '_' in headings)."
StatusError == "Error scanning document. See console."
StatusCleared == ""
StatusCopying == "Copying \"${buttonText}\"..."
StatusWarning == "Warning: No text found to copy."
StatusCopied == "Copied \"${buttonText}\" to clipboard!"
StatusCopyError == "Error! See console for details."

\* ------------------------------------------------------------- documents
Heading1 == HeadingPrefix \o <<"1">>
Heading2 == HeadingPrefix \o <<"2">>
Normal == <<"N", "o", "r", "m", "a", "l">>

Para(style, text) == [styleBuiltIn |-> style, text |-> text]

\* The paragraphs a document of the model is made of: a Button heading with
\* blanks around its marker and its text, a Label heading, an unmarked
\* heading, and a body paragraph that starts with the Button marker without
\* being a heading.
ParaKinds ==
  { Para(Heading2, <<" ", "*", " ", "A", " ">>),
    Para(Heading2, <<"_", "S">>),
    Para(Heading1, <<"I">>),
    Para(Normal, <<"*", "t">>) }

Documents == UNION { [1..n -> ParaKinds] : n \in 1..MaxParas }

Hosts == {"Word", "Excel"}

Scans == 1..MaxScans

VARIABLES
  doc,              \* the document body: its paragraphs, top to bottom
  ready,            \* Office.onReady has called back
  onclick,          \* scan-button.onclick is bound to scanAndBuildUI
  started,          \* number of invocations of scanAndBuildUI so far
  running,          \* the scan whose code is executing, 0 when idle
  pc,               \* per scan: where the invocation stands
  status,           \* statusMessage.innerText
  container,        \* children of button-container, in order
  paragraphs,       \* per scan: paragraphs.items once loaded
  allHeadings,      \* per scan
  uiItemsToCreate,  \* per scan
  prompts,          \* per scan: the promptData objects, by reference
  rangesToLoad,     \* per scan: references to promptData objects
  syncLog,          \* per scan: the context.sync() calls and their answers
  arrival,          \* per scan: order in which the service filled the batch
                    \* that the scan is reading
  outcome,          \* per scan: status and container when the scan ended
  overlapped,       \* scans that were in progress together with another
  statusArg,        \* the button text interpolated into a copy status
  clipboard,        \* the text on the system clipboard
  copyCalls           \* the invocations of copyTextToClipboard, in order

copyVars == << statusArg, clipboard, copyCalls >>

vars == << doc, ready, onclick, started, running, pc, status, container,
           paragraphs, allHeadings, uiItemsToCreate, prompts, rangesToLoad,
           syncLog, arrival, outcome, overlapped, copyVars >>

\* ------------------------------------------------------------- Word service
\* The body as the service stores it: each paragraph's text followed by its
\* end-of-paragraph mark.
RECURSIVE BodyText(_)
BodyText(d) ==
  IF d = <<>> THEN <<>> ELSE Head(d).text \o <<EOP>> \o BodyText(Tail(d))

Body == 0

\* getRange(location) of a paragraph (referred to by its place in the body)
\* or of the body: a location that the service resolves at the next sync.
GetRange(obj, loc) == [obj |-> obj, loc |-> loc]

\* Character offset of a location.  "End" of a paragraph is the point before
\* its end-of-paragraph mark.
Offset(d, l) ==
  IF l.obj = Body
  THEN IF l.loc = "Start" THEN 0 ELSE Len(BodyText(d))
  ELSE LET before == Len(BodyText(SubSeq(d, 1, l.obj - 1)))
       IN  IF l.loc = "Start" THEN before ELSE before + Len(d[l.obj].text)

\* reads counts the times the program has read the range's text property.
ExpandTo(a, b) ==
  [from |-> a, to |-> b, text |-> <<>>, isLoaded |-> FALSE, reads |-> 0]

Min(a, b) == IF a <= b THEN a ELSE b
Max(a, b) == IF a >= b THEN a ELSE b

\* The text the service loads for a range: everything between its two ends.
RangeText(d, r) ==
  LET a == Offset(d, r.from)
      b == Offset(d, r.to)
  IN  SubSeq(BodyText(d), Min(a, b) + 1, Max(a, b))

Orders(n) ==
  { f \in [1..n -> 1..n] : \A i, j \in 1..n : f[i] = f[j] => i = j }

\* ------------------------------------------------------------- scan, step 2
\* Mutant of IsHeading: a paragraph counts as a heading by the marker its
\* text starts with, whatever its style.
IsHeadingByMarker(p) ==
  StartsWith(p.text, <<"*">>) \/ StartsWith(p.text, <<"_">>)

IsHeading(p) == StartsWith(p.styleBuiltIn, HeadingPrefix)

FindHeadings(ps) ==
  LET idx == SelectSeq([i \in 1..Len(ps) |-> i], LAMBDA i : IsHeading(ps[i]))
  IN  [k \in 1..Len(idx) |->
         [paragraph |-> idx[k], text |-> ps[idx[k]].text, index |-> idx[k] - 1]]

\* ------------------------------------------------------------- scan, step 3
IsButton(headingText) == StartsWith(headingText, ButtonMarker)
IsLabel(headingText) == StartsWith(headingText, LabelMarker)

\* Mutant of EndRange: the window is closed by the next Button heading only.
EndRangeNextButton(hs, i) ==
  LET later == { j \in (i + 1)..Len(hs) : IsButton(Trim(hs[j].text)) }
  IN  IF later # {}
      THEN GetRange(hs[CHOOSE j \in later : \A m \in later : j <= m].paragraph,
                    "Start")
      ELSE GetRange(Body, "End")

\* Positions run from 1 here and from 0 in the source.
EndRange(hs, i) ==
  IF i + 1 <= Len(hs)
  THEN GetRange(hs[i + 1].paragraph, "Start")
  ELSE GetRange(Body, "End")

NoItems == [ui |-> <<>>, prompts |-> <<>>, ranges |-> <<>>, loads |-> <<>>]

\* Mutant of HeadingStep: a heading whose text came before is passed over.
HeadingStepOnce(hs, i, acc) ==
  LET currentHeading == hs[i]
      headingText == Trim(currentHeading.text)
      ref == Len(acc.prompts) + 1
  IN  IF \E j \in 1..(i - 1) : Trim(hs[j].text) = headingText
      THEN acc
      ELSE IF IsButton(headingText)
      THEN [ui |-> Append(acc.ui, [type |-> "button",
                                   text |-> Trim(Substring1(headingText)),
                                   data |-> ref]),
            prompts |-> Append(acc.prompts,
                               [buttonText |-> Trim(Substring1(headingText)),
                                textToCopy |-> <<>>,
                                _range |-> ExpandTo(GetRange(currentHeading.paragraph, "End"),
                                                    EndRange(hs, i))]),
            ranges |-> Append(acc.ranges, ref),
            loads |-> Append(acc.loads, ref)]
      ELSE IF IsLabel(headingText)
      THEN [acc EXCEPT !.ui = Append(@, [type |-> "label",
                                         text |-> Trim(Substring1(headingText)),
                                         data |-> 0])]
      ELSE acc

\* One iteration of the loop over allHeadings.  A promptData object is
\* referred to by its place in prompts: uiItemsToCreate and rangesToLoad hold
\* the same object.  loads is the context's queue of pending load requests.
HeadingStep(hs, i, acc) ==
  LET currentHeading == hs[i]
      headingText == Trim(currentHeading.text)
  IN  IF IsButton(headingText)
      THEN LET startRange == GetRange(currentHeading.paragraph, "End")
               endRange == EndRange(hs, i)
               contentRange == ExpandTo(startRange, endRange)
               promptData == [buttonText |-> Trim(Substring1(headingText)),
                              textToCopy |-> <<>>,
                              _range |-> contentRange]
               ref == Len(acc.prompts) + 1
           IN  [ui |-> Append(acc.ui, [type |-> "button",
                                       text |-> promptData.buttonText,
                                       data |-> ref]),
                prompts |-> Append(acc.prompts, promptData),
                ranges |-> Append(acc.ranges, ref),
                loads |-> Append(acc.loads, ref)]
      ELSE IF IsLabel(headingText)
      THEN [acc EXCEPT !.ui = Append(@, [type |-> "label",
                                         text |-> Trim(Substring1(headingText)),
                                         data |-> 0])]
      ELSE acc

RECURSIVE HeadingLoop(_, _, _)
HeadingLoop(hs, i, acc) ==
  IF i > Len(hs) THEN acc ELSE HeadingLoop(hs, i + 1, HeadingStep(hs, i, acc))

\* ------------------------------------------------------------- the UI
\* What the task pane shows: each child of the container with the text a
\* click on it would copy (read through the promptData object at that time).
Display(c, pr) ==
  [k \in 1..Len(c) |->
     [type |-> c[k].type,
      text |-> c[k].text,
      payload |-> IF c[k].type = "button"
                  THEN pr[c[k].owner][c[k].data].textToCopy
                  ELSE <<>>]]

NotEnded == [status |-> "-", items |-> <<>>]

Ended(s, st, c, pr) ==
  [outcome EXCEPT ![s] = [status |-> st, items |-> Display(c, pr)]]

InProgress(s) == pc[s] \notin {"idle", "done"}

\* ------------------------------------------------------------- Init
Init ==
  /\ doc \in Documents
  /\ ready = FALSE
  /\ onclick = FALSE
  /\ started = 0
  /\ running = 0
  /\ pc = [s \in Scans |-> "idle"]
  /\ status = StatusCleared
  /\ container = <<>>
  /\ paragraphs = [s \in Scans |-> <<>>]
  /\ allHeadings = [s \in Scans |-> <<>>]
  /\ uiItemsToCreate = [s \in Scans |-> <<>>]
  /\ prompts = [s \in Scans |-> <<>>]
  /\ rangesToLoad = [s \in Scans |-> <<>>]
  /\ syncLog = [s \in Scans |-> <<>>]
  /\ arrival = [s \in Scans |-> <<>>]
  /\ outcome = [s \in Scans |-> NotEnded]
  /\ overlapped = {}
  /\ statusArg = <<>>
  /\ clipboard = <<>>
  /\ copyCalls = <<>>

\* ------------------------------------------------------------- scanAndBuildUI
\* Mutant of ScanBegin: the old UI is not cleared (line 34 left out).
ScanBeginKeepsUI(s) ==
  /\ started' = s
  /\ status' = StatusScanning
  /\ pc' = [pc EXCEPT ![s] = "sync1"]
  /\ syncLog' = [syncLog EXCEPT
                   ![s] = <<[call |-> "fetch", ranges |-> <<>>, answer |-> "pending"]>>]
  /\ overlapped' = IF \E t \in Scans : InProgress(t)
                   THEN overlapped \cup {s} \cup {t \in Scans : InProgress(t)}
                   ELSE overlapped
  /\ UNCHANGED << doc, running, container, paragraphs, allHeadings,
                  uiItemsToCreate, prompts, rangesToLoad, arrival, outcome,
                  copyVars >>

\* Lines 31-41: the synchronous head of an invocation, up to the first await.
ScanBegin(s) ==
  /\ started' = s
  /\ container' = <<>>
  /\ status' = StatusScanning
  /\ pc' = [pc EXCEPT ![s] = "sync1"]
  /\ syncLog' = [syncLog EXCEPT
                   ![s] = <<[call |-> "fetch", ranges |-> <<>>, answer |-> "pending"]>>]
  /\ overlapped' = IF \E t \in Scans : InProgress(t)
                   THEN overlapped \cup {s} \cup {t \in Scans : InProgress(t)}
                   ELSE overlapped
  /\ UNCHANGED << doc, running, paragraphs, allHeadings, uiItemsToCreate,
                  prompts, rangesToLoad, arrival, outcome,
                  copyVars >>

\* Office.onReady's callback.
OnReady(host) ==
  /\ ~ready
  /\ ready' = TRUE
  /\ IF host = "Word"
     THEN /\ onclick' = TRUE
          /\ ScanBegin(1)
     ELSE UNCHANGED << doc, onclick, started, running, pc, status, container,
                       paragraphs, allHeadings, uiItemsToCreate, prompts,
                       rangesToLoad, syncLog, arrival, outcome, overlapped,
                  copyVars >>

\* A click on scan-button.
ClickScan ==
  /\ onclick
  /\ running = 0
  /\ started < MaxScans
  /\ ScanBegin(started + 1)
  /\ UNCHANGED << ready, onclick >>

Answered(log, answer) ==
  [log EXCEPT ![Len(log)] = [@ EXCEPT !.answer = answer]]

\* Mutant of Catch: the items prepared before the failure are shown.
CatchShowsPartial(s) ==
  /\ status' = StatusError
  /\ container' = container \o
                    [k \in 1..Len(uiItemsToCreate[s]) |->
                       [type |-> uiItemsToCreate[s][k].type,
                        text |-> uiItemsToCreate[s][k].text,
                        owner |-> s, data |-> uiItemsToCreate[s][k].data]]
  /\ pc' = [pc EXCEPT ![s] = "done"]
  /\ syncLog' = [syncLog EXCEPT ![s] = Answered(@, "error")]
  /\ outcome' = Ended(s, status', container', prompts)
  /\ UNCHANGED << doc, ready, onclick, started, running,
                  paragraphs, allHeadings, uiItemsToCreate, prompts,
                  rangesToLoad, arrival, overlapped,
                  copyVars >>

\* Mutant of Catch: a rejected sync starts the scan over from its fetch.
CatchRetries(s) ==
  /\ status' = StatusScanning
  /\ pc' = [pc EXCEPT ![s] = "sync1"]
  /\ syncLog' = [syncLog EXCEPT
                   ![s] = <<[call |-> "fetch", ranges |-> <<>>, answer |-> "pending"]>>]
  /\ UNCHANGED << doc, ready, onclick, started, running, container,
                  paragraphs, allHeadings, uiItemsToCreate, prompts,
                  rangesToLoad, arrival, outcome, overlapped, copyVars >>

\* Mutant of Catch: the error is swallowed and the status left as it is.
CatchSilent(s) ==
  /\ pc' = [pc EXCEPT ![s] = "done"]
  /\ syncLog' = [syncLog EXCEPT ![s] = Answered(@, "error")]
  /\ outcome' = Ended(s, status, container, prompts)
  /\ UNCHANGED << doc, ready, onclick, started, running, status, container,
                  paragraphs, allHeadings, uiItemsToCreate, prompts,
                  rangesToLoad, arrival, overlapped, copyVars >>

\* Lines 142-145: a rejected sync leaves Word.run and lands in the catch.
Catch(s) ==
  /\ status' = StatusError
  /\ pc' = [pc EXCEPT ![s] = "done"]
  /\ syncLog' = [syncLog EXCEPT ![s] = Answered(@, "error")]
  /\ outcome' = Ended(s, status', container, prompts)
  /\ UNCHANGED << doc, ready, onclick, started, running, container,
                  paragraphs, allHeadings, uiItemsToCreate, prompts,
                  rangesToLoad, arrival, overlapped,
                  copyVars >>

FetchFail(s) ==
  /\ running = 0
  /\ pc[s] = "sync1"
  /\ Catch(s)

\* Line 41 resolves: paragraphs.items holds the body's paragraphs.
FetchOk(s) ==
  /\ running = 0
  /\ pc[s] = "sync1"
  /\ running' = s
  /\ paragraphs' = [paragraphs EXCEPT ![s] = doc]
  /\ syncLog' = [syncLog EXCEPT ![s] = Answered(@, "ok")]
  /\ pc' = [pc EXCEPT ![s] = "headings"]
  /\ UNCHANGED << doc, ready, onclick, started, status, container,
                  allHeadings, uiItemsToCreate, prompts, rangesToLoad,
                  arrival, outcome, overlapped,
                  copyVars >>

\* Lines 43-59.
ClassifyHeadings(s) ==
  /\ running = s
  /\ pc[s] = "headings"
  /\ allHeadings' = [allHeadings EXCEPT ![s] = FindHeadings(paragraphs[s])]
  /\ IF Len(allHeadings'[s]) = 0
     THEN /\ status' = StatusNoHeadings
          /\ pc' = [pc EXCEPT ![s] = "done"]
          /\ running' = 0
          /\ outcome' = Ended(s, status', container, prompts)
     ELSE /\ pc' = [pc EXCEPT ![s] = "ranges"]
          /\ UNCHANGED << status, running, outcome >>
  /\ UNCHANGED << doc, ready, onclick, started, container, paragraphs,
                  uiItemsToCreate, prompts, rangesToLoad, syncLog, arrival,
                  overlapped,
                  copyVars >>

\* Mutant of SyncCalls: one context.sync() for each queued range.
RECURSIVE SyncPerButton(_, _)
SyncPerButton(log, loads) ==
  IF loads = <<>>
  THEN log
  ELSE SyncPerButton(Append(log, [call |-> "resolve", ranges |-> <<Head(loads)>>,
                                  answer |-> "pending"]),
                     Tail(loads))

\* Mutant of SyncCalls: no sync when no range is queued.
SyncWhenQueued(log, loads) ==
  IF loads = <<>>
  THEN log
  ELSE Append(log, [call |-> "resolve", ranges |-> loads, answer |-> "pending"])

\* Line 109: one context.sync() that carries every load queued so far.
SyncCalls(log, loads) ==
  Append(log, [call |-> "resolve", ranges |-> loads, answer |-> "pending"])

\* Lines 61-109: the loop over allHeadings, then the second sync is issued.
BuildItems(s) ==
  /\ running = s
  /\ pc[s] = "ranges"
  /\ LET acc == HeadingLoop(allHeadings[s], 1, NoItems)
     IN  /\ uiItemsToCreate' = [uiItemsToCreate EXCEPT ![s] = acc.ui]
         /\ prompts' = [prompts EXCEPT ![s] = acc.prompts]
         /\ rangesToLoad' = [rangesToLoad EXCEPT ![s] = acc.ranges]
         /\ syncLog' = [syncLog EXCEPT ![s] = SyncCalls(@, acc.loads)]
  /\ pc' = [pc EXCEPT ![s] = "sync2"]
  /\ running' = 0
  /\ UNCHANGED << doc, ready, onclick, started, status, container,
                  paragraphs, allHeadings, arrival, outcome, overlapped,
                  copyVars >>

ResolveFail(s) ==
  /\ running = 0
  /\ pc[s] = "sync2"
  /\ Catch(s)

\* The promptData objects once the service has loaded the ranges of a batch.
Loaded(pr, batch) ==
  [r \in 1..Len(pr) |->
     IF \E k \in 1..Len(batch) : batch[k] = r
     THEN [pr[r] EXCEPT !._range = [@ EXCEPT !.text = RangeText(doc, pr[r]._range),
                                            !.isLoaded = TRUE]]
     ELSE pr[r]]

\* Line 109 resolves: the service has filled in the text of every range of
\* the batch, in an order of its own.
ResolveOk(s) ==
  /\ running = 0
  /\ pc[s] = "sync2"
  /\ \E order \in Orders(Len(syncLog[s][Len(syncLog[s])].ranges)) :
       LET batch == syncLog[s][Len(syncLog[s])].ranges
       IN  /\ arrival' = [arrival EXCEPT
                            ![s] = [k \in 1..Len(batch) |-> batch[order[k]]]]
           /\ prompts' = [prompts EXCEPT ![s] = Loaded(@, batch)]
  /\ running' = s
  /\ syncLog' = [syncLog EXCEPT ![s] = Answered(@, "ok")]
  /\ pc' = [pc EXCEPT ![s] = "texts"]
  /\ UNCHANGED << doc, ready, onclick, started, status, container,
                  paragraphs, allHeadings, uiItemsToCreate, rangesToLoad,
                  outcome, overlapped,
                  copyVars >>

\* Mutant of LoadedText: the k-th entry takes the k-th text to arrive.
LoadedTextByArrival(pr, arrived, k, ref) == pr[arrived[k]]._range.text

\* Line 113, for the k-th entry of rangesToLoad.
LoadedText(pr, arrived, k, ref) == pr[ref]._range.text

\* Mutant of Retrieved: the loop stops after its first entry.
RetrievedFirstOnly(pr, refs, arrived, k) ==
  IF k > Len(refs) \/ k > 1
  THEN pr
  ELSE [pr EXCEPT ![refs[k]].textToCopy =
                     Trim(LoadedText(pr, arrived, k, refs[k])),
                  ![refs[k]]._range.reads = @ + 1]

\* Lines 112-114: the loop over rangesToLoad, from its k-th entry on.
RECURSIVE Retrieved(_, _, _, _)
Retrieved(pr, refs, arrived, k) ==
  IF k > Len(refs)
  THEN pr
  ELSE Retrieved([pr EXCEPT ![refs[k]].textToCopy =
                               Trim(LoadedText(pr, arrived, k, refs[k])),
                            ![refs[k]]._range.reads = @ + 1],
                 refs, arrived, k + 1)

\* Lines 111-114.
RetrieveTexts(s) ==
  /\ running = s
  /\ pc[s] = "texts"
  /\ prompts' = [prompts EXCEPT
                  ![s] = Retrieved(@, rangesToLoad[s], arrival[s], 1)]
  /\ pc' = [pc EXCEPT ![s] = "build"]
  /\ UNCHANGED << doc, ready, onclick, started, running, status, container,
                  paragraphs, allHeadings, uiItemsToCreate, rangesToLoad,
                  syncLog, arrival, outcome, overlapped,
                  copyVars >>

\* Mutant of Render: a button with nothing to copy is left out.
RenderSkipsEmpty(s, items) ==
  LET kept == SelectSeq(items, LAMBDA it :
                  it.type = "label" \/ prompts[s][it.data].textToCopy # <<>>)
  IN  [k \in 1..Len(kept) |->
         [type |-> kept[k].type, text |-> kept[k].text,
          owner |-> s, data |-> kept[k].data]]

\* Mutant of Render: the labels are appended first, then the buttons.
RenderLabelsFirst(s, items) ==
  LET all == [k \in 1..Len(items) |->
                [type |-> items[k].type, text |-> items[k].text,
                 owner |-> s, data |-> items[k].data]]
  IN  SelectSeq(all, LAMBDA c : c.type = "label")
        \o SelectSeq(all, LAMBDA c : c.type = "button")

\* Lines 123-140: the children appended to the container for a scan's items.
Render(s, items) ==
  [k \in 1..Len(items) |->
     [type |-> items[k].type, text |-> items[k].text,
      owner |-> s, data |-> items[k].data]]

\* Mutant of FinalStatus: the empty result is not told apart.
FinalStatusCleared(items) == StatusCleared

\* Lines 117-121: the status once "Scanning document..." is cleared.
FinalStatus(items) ==
  IF Len(items) = 0 THEN StatusNoPrompts ELSE StatusCleared

\* Lines 116-140.
BuildUI(s) ==
  /\ running = s
  /\ pc[s] = "build"
  /\ status' = FinalStatus(uiItemsToCreate[s])
  /\ IF Len(uiItemsToCreate[s]) = 0
     THEN UNCHANGED container
     ELSE container' = container \o Render(s, uiItemsToCreate[s])
  /\ outcome' = Ended(s, status', container', prompts)
  /\ arrival' = [arrival EXCEPT ![s] = <<>>]
  /\ pc' = [pc EXCEPT ![s] = "done"]
  /\ running' = 0
  /\ UNCHANGED << doc, ready, onclick, started, paragraphs, allHeadings,
                  uiItemsToCreate, prompts, rangesToLoad, syncLog, overlapped,
                  copyVars >>

\* ------------------------------------------------------------- copyTextToClipboard
scanVars == << doc, ready, onclick, started, running, pc, container,
               paragraphs, allHeadings, uiItemsToCreate, prompts,
               rangesToLoad, syncLog, arrival, outcome, overlapped >>

NeverNothing(textToCopy) == FALSE

\* Line 160: the test that keeps an empty text off the clipboard.
NothingToCopy(textToCopy) == Len(textToCopy) = 0

\* Mutant of CopyBegin: every button copies the text of the first button.
CopyBeginFirstButton(k) ==
  /\ running = 0
  /\ Len(copyCalls) < MaxCopies
  /\ k \in 1..Len(container)
  /\ container[k].type = "button"
  /\ LET first == CHOOSE j \in 1..Len(container) :
                     /\ container[j].type = "button"
                     /\ \A m \in 1..(j - 1) : container[m].type # "button"
         data == prompts[container[first].owner][container[first].data]
     IN  /\ statusArg' = data.buttonText
         /\ IF NothingToCopy(data.textToCopy)
            THEN /\ status' = StatusWarning
                 /\ copyCalls' = copyCalls
            ELSE /\ status' = StatusCopying
                 /\ copyCalls' = Append(copyCalls,
                                        [textToCopy |-> data.textToCopy,
                                         buttonText |-> data.buttonText,
                                         owner |-> container[k].owner,
                                         data |-> container[k].data])
  /\ UNCHANGED << scanVars, clipboard >>

\* A click on the k-th child of the container, a button: lines 135-137 read
\* the text through item.data at the time of the click, then lines 152-170
\* run up to the await of navigator.clipboard.writeText, where the call
\* joins copyCalls, or to the return of line 163.  owner and data record
\* which button was clicked.
CopyBegin(k) ==
  /\ running = 0
  /\ Len(copyCalls) < MaxCopies
  /\ k \in 1..Len(container)
  /\ container[k].type = "button"
  /\ LET item == container[k]
         data == prompts[item.owner][item.data]
         textToCopy == data.textToCopy
         buttonText == data.buttonText
     IN  /\ statusArg' = buttonText
         /\ IF NothingToCopy(textToCopy)
            THEN /\ status' = StatusWarning
                 /\ copyCalls' = copyCalls
            ELSE /\ status' = StatusCopying
                 /\ copyCalls' = Append(copyCalls,
                                        [textToCopy |-> textToCopy,
                                         buttonText |-> buttonText,
                                         owner |-> item.owner,
                                         data |-> item.data])
  /\ UNCHANGED << scanVars, clipboard >>

Returned(calls, c) ==
  [i \in 1..(Len(calls) - 1) |-> IF i < c THEN calls[i] ELSE calls[i + 1]]

\* Line 170 resolves: the text is on the clipboard; lines 173-174.
ClipboardOk(c) ==
  /\ running = 0
  /\ c \in 1..Len(copyCalls)
  /\ clipboard' = copyCalls[c].textToCopy
  /\ status' = StatusCopied
  /\ statusArg' = copyCalls[c].buttonText
  /\ copyCalls' = Returned(copyCalls, c)
  /\ UNCHANGED scanVars

\* Line 170 rejects: the catch of lines 176-180.
ClipboardFail(c) ==
  /\ running = 0
  /\ c \in 1..Len(copyCalls)
  /\ status' = StatusCopyError
  /\ copyCalls' = Returned(copyCalls, c)
  /\ UNCHANGED << scanVars, statusArg, clipboard >>

\* The steps of invocation s after its start: an answer of the service to
\* the sync it awaits, or the continuation that follows.
Continue(s) ==
  \/ FetchFail(s)
  \/ FetchOk(s)
  \/ ClassifyHeadings(s)
  \/ BuildItems(s)
  \/ ResolveFail(s)
  \/ ResolveOk(s)
  \/ RetrieveTexts(s)
  \/ BuildUI(s)

Next ==
  \/ \E host \in Hosts : OnReady(host)
  \/ ClickScan
  \/ \E k \in 1..(MaxParas + 1) * (MaxScans + 1) : CopyBegin(k)
  \/ \E c \in 1..MaxCopies : ClipboardOk(c) \/ ClipboardFail(c)
  \/ \E s \in Scans : Continue(s)

Spec == Init /\ [][Next]_vars

\* The service answers every sync it was sent, and the event loop runs
\* every continuation that is ready to run.
Fairness == \A s \in Scans : WF_vars(Continue(s))

FairSpec == Spec /\ Fairness

\* ------------------------------------------------------------- claims
\* The marker type of a heading, read off the first character of its
\* trimmed text.
MarkerOf(h) ==
  LET t == Trim(h.text)
  IN  IF t # <<>> /\ t[1] = "*" THEN "Button"
      ELSE IF t # <<>> /\ t[1] = "_" THEN "Label"
      ELSE "None"

ButtonPositions(hs) ==
  SelectSeq([i \in 1..Len(hs) |-> i], LAMBDA i : MarkerOf(hs[i]) = "Button")

\* The scan has been through the loop over its headings.
Queued(s) == Len(syncLog[s]) = 2

\* The text of the body from the end of paragraph a to the start of
\* paragraph b, paragraph by paragraph (b = Len(d) + 1: to the end).
RECURSIVE Between(_, _, _)
Between(d, a, b) ==
  IF a + 1 >= b
  THEN <<EOP>>
  ELSE <<EOP>> \o d[a + 1].text \o Between(d, a + 1, b)

\* C1: the content range queued for the Button heading at position i starts
\* at the end of that heading's paragraph and ends at the start of the
\* heading at position i+1, whatever its marker type, or at the end of the
\* body when i is last; the text loaded for it is the body text between the
\* two and nothing after the next heading.
C1_RangeEndsAtNextHeading ==
  \A s \in Scans :
    Queued(s) =>
      LET hs == allHeadings[s]
          bp == ButtonPositions(hs)
          q == syncLog[s][2].ranges
      IN  /\ Len(q) = Len(bp)
          /\ \A k \in 1..Len(bp) :
               LET i == bp[k]
                   r == prompts[s][q[k]]._range
                   last == i = Len(hs)
               IN  /\ r.from.obj = hs[i].paragraph
                   /\ r.from.loc = "End"
                   /\ r.to.obj = IF last THEN Body ELSE hs[i + 1].paragraph
                   /\ r.to.loc = IF last THEN "End" ELSE "Start"
                   /\ r.isLoaded =>
                        r.text = Between(doc, hs[i].paragraph,
                                         IF last THEN Len(doc) + 1
                                         ELSE hs[i + 1].paragraph)

\* A Button heading followed by body text and then by a heading that is not
\* a Button: its range has been loaded and its text retrieved.
C1_Witness ==
  \E s \in Scans :
    /\ pc[s] = "done"
    /\ Queued(s)
    /\ \E i \in 1..Len(allHeadings[s]) :
         /\ MarkerOf(allHeadings[s][i]) = "Button"
         /\ i + 1 <= Len(allHeadings[s])
         /\ MarkerOf(allHeadings[s][i + 1]) # "Button"
         /\ prompts[s][1]._range.isLoaded
         /\ prompts[s][1].textToCopy # <<>>

\* The children of the container that scan s appended, in container order,
\* as directives without their payload.
OwnItems(s) == SelectSeq(container, LAMBDA c : c.owner = s)

Directive(c) == [type |-> c.type, text |-> c.text]

\* The paragraph's style name begins with the letters of "Heading".
HeadingStyled(p) ==
  /\ Len(p.styleBuiltIn) >= Len(HeadingPrefix)
  /\ \A j \in 1..Len(HeadingPrefix) : p.styleBuiltIn[j] = HeadingPrefix[j]

\* The directives of a document, heading by heading in paragraph order.
ExpectedDirectives(d) ==
  LET hs == SelectSeq(d, HeadingStyled)
      ds == SelectSeq(hs, LAMBDA h : MarkerOf(h) # "None")
  IN  [k \in 1..Len(ds) |->
         [type |-> IF MarkerOf(ds[k]) = "Button" THEN "button" ELSE "label",
          text |-> Trim(Tail(Trim(ds[k].text)))]]

\* C2: the directives a scan has emitted stand in the container in the order
\* of their owning headings in the paragraph stream, labels and buttons
\* interleaved as the headings are.
C2_EmissionInDocumentOrder ==
  \A s \in Scans :
    LET own == OwnItems(s)
    IN  own # <<>> =>
          /\ Len(own) = Len(ExpectedDirectives(doc))
          /\ \A k \in 1..Len(own) : Directive(own[k]) = ExpectedDirectives(doc)[k]

\* A scan has emitted a button, a label and another button, in that order.
C2_Witness ==
  \E s \in Scans :
    /\ pc[s] = "done"
    /\ Len(OwnItems(s)) = 3
    /\ OwnItems(s)[1].type = "button"
    /\ OwnItems(s)[2].type = "label"
    /\ OwnItems(s)[3].type = "button"

ResolveCalls(s) == SelectSeq(syncLog[s], LAMBDA c : c.call = "resolve")

\* C3: a scan never issues more than one range-resolution round trip, and a
\* scan whose heading sequence holds a Button heading has, when it ends,
\* issued exactly one, carrying as many ranges as there are Button headings.
C3_OneResolutionForAllButtons ==
  \A s \in Scans :
    /\ Len(ResolveCalls(s)) <= 1
    /\ (pc[s] = "done" /\ ButtonPositions(allHeadings[s]) # <<>>) =>
         /\ Len(ResolveCalls(s)) = 1
         /\ Len(ResolveCalls(s)[1].ranges) = Len(ButtonPositions(allHeadings[s]))

\* A scan over three Button headings has ended after its resolution round
\* trip was answered.
C3_Witness ==
  \E s \in Scans :
    /\ pc[s] = "done"
    /\ Len(ButtonPositions(allHeadings[s])) = 3
    /\ Len(ResolveCalls(s)) = 1
    /\ ResolveCalls(s)[1].answer = "ok"

\* The paragraph fetch of scan s has been answered with the paragraphs.
Fetched(s) == Len(syncLog[s]) >= 1 /\ syncLog[s][1].answer = "ok"

NoHeadingStyled(ps) == \A i \in 1..Len(ps) : ~HeadingStyled(ps[i])

\* C4: a scan that fetched a paragraph stream in which no style starts with
\* "Heading" emits no directive and ends with the status
\* "No headings found in this document.".
C4_NoHeadings ==
  \A s \in Scans :
    (Fetched(s) /\ NoHeadingStyled(paragraphs[s])) =>
      /\ OwnItems(s) = <<>>
      /\ uiItemsToCreate[s] = <<>>
      /\ pc[s] = "done" => outcome[s].status = StatusNoHeadings

\* A scan of a document of several paragraphs, none of them a heading, has
\* ended.
C4_Witness ==
  \E s \in Scans :
    /\ pc[s] = "done"
    /\ Fetched(s)
    /\ Len(paragraphs[s]) >= 2
    /\ NoHeadingStyled(paragraphs[s])

\* The scan found headings, none of them marked with '*' or '_'.
UnmarkedHeadingsOnly(s) ==
  /\ allHeadings[s] # <<>>
  /\ \A i \in 1..Len(allHeadings[s]) : MarkerOf(allHeadings[s][i]) = "None"

\* C5 as stated: whenever a scan found headings and none is marked, it ends
\* with the status "No prompts found ...".
C5_Original ==
  \A s \in Scans :
    (pc[s] = "done" /\ UnmarkedHeadingsOnly(s)) =>
      outcome[s].status = StatusNoPrompts

\* C5, amended: such a scan still issues the range-resolution round trip,
\* with no range in it; it ends with "No prompts found ...", a status other
\* than those of NoHeadings and Failed, when that round trip succeeds, and
\* with the status of Failed when it fails.  It emits nothing either way.
C5_NoDirectives ==
  \A s \in Scans :
    (pc[s] = "done" /\ UnmarkedHeadingsOnly(s)) =>
      /\ Len(syncLog[s]) = 2
      /\ syncLog[s][2].ranges = <<>>
      /\ OwnItems(s) = <<>>
      /\ syncLog[s][2].answer = "ok" =>
           /\ outcome[s].status = StatusNoPrompts
           /\ outcome[s].status \notin {StatusNoHeadings, StatusError}
      /\ syncLog[s][2].answer = "error" => outcome[s].status = StatusError

\* A scan over unmarked headings has ended after both round trips succeeded.
C5_Witness ==
  \E s \in Scans :
    /\ pc[s] = "done"
    /\ UnmarkedHeadingsOnly(s)
    /\ Len(allHeadings[s]) >= 2
    /\ syncLog[s][2].answer = "ok"

\* A round trip of scan s was answered with a failure.
RoundTripFailed(s) ==
  \E k \in 1..Len(syncLog[s]) : syncLog[s][k].answer = "error"

\* C6: a scan one of whose round trips failed ends with the status
\* "Error scanning document. See console.", and the container never holds a
\* label or a button of that scan.
C6_FailureEmitsNothing ==
  \A s \in Scans :
    RoundTripFailed(s) =>
      /\ pc[s] = "done"
      /\ outcome[s].status = StatusError
      /\ OwnItems(s) = <<>>

\* One scan has failed at its paragraph fetch and another at its range
\* resolution, with a label and a button prepared.
C6_Witness ==
  \E s, t \in Scans :
    /\ syncLog[s] # <<>> /\ syncLog[s][1].answer = "error"
    /\ Len(syncLog[t]) = 2 /\ syncLog[t][2].answer = "error"
    /\ syncLog[t][2].ranges # <<>>
    /\ \E k \in 1..Len(uiItemsToCreate[t]) : uiItemsToCreate[t][k].type = "label"

\* C7 as stated, and read in its favour for the scans none of whose round
\* trips failed: every such scan that has ended made exactly two round
\* trips, the paragraph fetch and then the range resolution.
C7_Original ==
  \A s \in Scans :
    (pc[s] = "done" /\ ~RoundTripFailed(s)) =>
      /\ Len(syncLog[s]) = 2
      /\ syncLog[s][1].call = "fetch"
      /\ syncLog[s][2].call = "resolve"

\* C7, amended: a scan makes at most two round trips, the paragraph fetch
\* first and the range resolution second.  A scan that has ended made both
\* exactly when its fetch succeeded and found at least one heading, whatever
\* their number and markers; a scan whose fetch failed or found no heading
\* made the fetch only.
C7_AtMostTwoRoundTrips ==
  \A s \in Scans :
    /\ Len(syncLog[s]) <= 2
    /\ Len(syncLog[s]) >= 1 => syncLog[s][1].call = "fetch"
    /\ Len(syncLog[s]) = 2 => syncLog[s][2].call = "resolve"
    /\ pc[s] = "done" =>
         /\ Len(syncLog[s]) >= 1
         /\ Len(syncLog[s]) = 2 <=>
              (Fetched(s) /\ ~NoHeadingStyled(paragraphs[s]))

\* A scan over three headings has ended after two round trips, and a scan
\* has ended after one.
C7_Witness ==
  /\ \E s \in Scans :
       /\ pc[s] = "done"
       /\ Len(allHeadings[s]) = 3
       /\ Len(syncLog[s]) = 2
       /\ syncLog[s][2].answer = "ok"
  /\ \E s \in Scans : pc[s] = "done" /\ Len(syncLog[s]) = 1

\* The answers the service gave to the round trips of scan s, in order.
Answers(s) == [k \in 1..Len(syncLog[s]) |-> syncLog[s][k].answer]

\* Scan t was run after scan s had ended, neither of them while another
\* scan was in progress.
InSuccession(s, t) ==
  /\ s < t
  /\ pc[s] = "done" /\ pc[t] = "done"
  /\ s \notin overlapped /\ t \notin overlapped

\* C8 as stated: two scans run in succession, each of which fetched the
\* unchanged paragraph stream, end with the same status and the same
\* directives, texts and payloads in the container.
C8_Original ==
  \A s, t \in Scans :
    (InSuccession(s, t) /\ Fetched(s) /\ Fetched(t)) =>
      outcome[s] = outcome[t]

\* C8, amended: two scans run in succession over the unchanged document, to
\* whose round trips the service gave the same answers, end with the same
\* status and the same directives, texts and payloads in the container,
\* nothing of the first run being carried over or duplicated.
C8_Idempotent ==
  \A s, t \in Scans :
    (InSuccession(s, t) /\ Answers(s) = Answers(t)) =>
      /\ outcome[s] = outcome[t]
      /\ Len(outcome[t].items) =
           IF Answers(t) = <<"ok", "ok">> THEN Len(ExpectedDirectives(doc)) ELSE 0

\* Two scans run in succession have both ended with directives, a button
\* with a payload among them.
C8_Witness ==
  \E s, t \in Scans :
    /\ InSuccession(s, t)
    /\ Answers(s) = <<"ok", "ok">>
    /\ Answers(t) = <<"ok", "ok">>
    /\ Len(outcome[t].items) >= 2
    /\ \E k \in 1..Len(outcome[t].items) : outcome[t].items[k].payload # <<>>

Buttons(items) == SelectSeq(items, LAMBDA c : c.type = "button")

\* The paragraph that closes the window of the heading at position i.
WindowEnd(d, hs, i) == IF i = Len(hs) THEN Len(d) + 1 ELSE hs[i + 1].paragraph

\* The texts of scan s have been retrieved after a successful resolution.
TextsRetrieved(s) == pc[s] \in {"build", "done"} /\ Answers(s) = <<"ok", "ok">>

\* C9: once the resolution has returned and the texts are retrieved, the
\* payload of the j-th Button directive is the trimmed text of the range
\* made for the j-th Button heading, in whatever order the service filled
\* in the batch.
C9_PayloadOfOwnRange ==
  \A s \in Scans :
    TextsRetrieved(s) =>
      LET hs == allHeadings[s]
          bp == ButtonPositions(hs)
          bs == Buttons(uiItemsToCreate[s])
      IN  /\ Len(bs) = Len(bp)
          /\ \A j \in 1..Len(bs) :
               LET prompt == prompts[s][bs[j].data]
               IN  /\ prompt._range.from.obj = hs[bp[j]].paragraph
                   /\ prompt.textToCopy = Trim(prompt._range.text)
                   /\ prompt.textToCopy =
                        Trim(Between(doc, hs[bp[j]].paragraph,
                                     WindowEnd(doc, hs, bp[j])))

\* The service filled in the second range of a batch before the first, the
\* two texts differ, and the scan has retrieved them.
C9_Witness ==
  \E s \in Scans :
    /\ pc[s] = "build"
    /\ Len(arrival[s]) = 2
    /\ arrival[s][1] = 2
    /\ arrival[s][2] = 1
    /\ prompts[s][1].textToCopy # prompts[s][2].textToCopy

\* The place, among the directives, of the directive of the heading at
\* position i: the number of marked headings up to it.
DirectiveIndex(hs, i) ==
  Cardinality({ m \in 1..i : MarkerOf(hs[m]) # "None" })

\* The heading at position i is a Button heading whose window holds nothing
\* but white space.
EmptyButton(d, hs, i) ==
  /\ MarkerOf(hs[i]) = "Button"
  /\ Trim(Between(d, hs[i].paragraph, WindowEnd(d, hs, i))) = <<>>

\* C10: when both round trips of a scan have succeeded, a Button heading
\* whose range text is empty after trimming has its Button directive, with
\* the empty payload, at its document-order place among the children the
\* scan appended, and the scan has ended with the cleared status of
\* Directives, not with that of Failed or of NoDirectives.
C10_EmptyPayloadStillEmitted ==
  \A s \in Scans :
    (pc[s] = "done" /\ Answers(s) = <<"ok", "ok">>) =>
      \A i \in 1..Len(allHeadings[s]) :
        EmptyButton(doc, allHeadings[s], i) =>
          LET shown == outcome[s].items
              k == Len(shown) - Len(uiItemsToCreate[s])
                     + DirectiveIndex(allHeadings[s], i)
          IN  /\ outcome[s].status = StatusCleared
              /\ Len(shown) >= Len(ExpectedDirectives(doc))
              /\ Len(uiItemsToCreate[s]) = Len(ExpectedDirectives(doc))
              /\ shown[k].type = "button"
              /\ shown[k].text = Trim(Tail(Trim(allHeadings[s][i].text)))
              /\ shown[k].payload = <<>>

\* A scan has ended over a Button heading immediately followed by another
\* heading, which comes after a first directive.
C10_Witness ==
  \E s \in Scans :
    /\ pc[s] = "done"
    /\ Answers(s) = <<"ok", "ok">>
    /\ Len(allHeadings[s]) = 3
    /\ MarkerOf(allHeadings[s][1]) # "None"
    /\ EmptyButton(doc, allHeadings[s], 2)
    /\ allHeadings[s][3].paragraph = allHeadings[s][2].paragraph + 1

\* The text a click on the k-th child of the container hands to the copy.
Payload(k) == prompts[container[k].owner][container[k].data].textToCopy

IsButtonChild(k) == k \in 1..Len(container) /\ container[k].type = "button"

Children == 1..(MaxParas + 1) * (MaxScans + 1)

\* C11: a click on a button whose payload is empty sets the status to
\* "Warning: No text found to copy." and starts no write to the clipboard;
\* every write in flight carries a non-empty text, and the clipboard changes
\* only to the non-empty text of a write in flight; a write that fails sets
\* the status to "Error! See console for details." and leaves the container,
\* the payloads and the clipboard as they were.
C11_EmptyPayloadNeverCopied ==
  [][/\ \A k \in Children :
          (CopyBegin(k) /\ Payload(k) = <<>>) =>
            /\ status' = StatusWarning
            /\ copyCalls' = copyCalls
            /\ clipboard' = clipboard
     /\ \A c \in 1..Len(copyCalls') : copyCalls'[c].textToCopy # <<>>
     /\ clipboard' # clipboard =>
          /\ clipboard' # <<>>
          /\ \E c \in 1..Len(copyCalls) : clipboard' = copyCalls[c].textToCopy
     /\ \A c \in 1..MaxCopies :
          ClipboardFail(c) =>
            /\ status' = StatusCopyError
            /\ container' = container
            /\ prompts' = prompts
            /\ clipboard' = clipboard]_vars

\* The warning is shown over a container that holds a button with an empty
\* payload, and nothing is on the clipboard or on its way there.
C11_Witness ==
  /\ status = StatusWarning
  /\ \E k \in Children : IsButtonChild(k) /\ Payload(k) = <<>>
  /\ clipboard = <<>>
  /\ copyCalls = <<>>

\* C12: at any time at most one scan is in progress: no invocation of
\* scanAndBuildUI has started while an earlier one is still between its
\* start and its end, suspended at a service round trip.
C12_ScansSerialized ==
  Cardinality({s \in Scans : InProgress(s)}) <= 1

\* C13: within one scan no range's text is read before the loop over the
\* headings has produced the range of every Button heading and the
\* resolution round trip has answered; once lines 112-114 have run, every
\* range produced for a Button heading has been read exactly once, and none
\* is ever read twice.
C13_EachRangeReadOnceAfterResolution ==
  \A s \in Scans :
    /\ \A r \in 1..Len(prompts[s]) :
         LET reads == prompts[s][r]._range.reads
         IN  /\ reads <= 1
             /\ reads = 1 =>
                  /\ Answers(s) = <<"ok", "ok">>
                  /\ prompts[s][r]._range.isLoaded
                  /\ Len(prompts[s]) = Len(ButtonPositions(allHeadings[s]))
             /\ pc[s] \in {"sync1", "headings", "ranges", "sync2", "texts"} =>
                  reads = 0
    /\ TextsRetrieved(s) =>
         /\ Len(prompts[s]) = Len(ButtonPositions(allHeadings[s]))
         /\ \A r \in 1..Len(prompts[s]) : prompts[s][r]._range.reads = 1

\* A scan over two Button headings has read both of its ranges.
C13_Witness ==
  \E s \in Scans :
    /\ TextsRetrieved(s)
    /\ Len(prompts[s]) = 2
    /\ \A r \in 1..2 : prompts[s][r]._range.reads = 1

\* The state of scan s in the per-scan state machine: Idle until the fetch
\* has answered, MetadataFetched until the loop over the headings has run,
\* BoundariesComputed until the resolution has answered, TextResolved until
\* the scan ends, then Done, or Failed when a round trip was rejected.
Phase(s) ==
  CASE pc[s] = "idle" -> "NotStarted"
    [] pc[s] = "sync1" -> "Idle"
    [] pc[s] \in {"headings", "ranges"} -> "MetadataFetched"
    [] pc[s] = "sync2" -> "BoundariesComputed"
    [] pc[s] \in {"texts", "build"} -> "TextResolved"
    [] pc[s] = "done" -> IF RoundTripFailed(s) THEN "Failed" ELSE "Done"

Chain ==
  { <<"NotStarted", "Idle">>, <<"Idle", "MetadataFetched">>,
    <<"MetadataFetched", "BoundariesComputed">>,
    <<"BoundariesComputed", "TextResolved">>, <<"TextResolved", "Done">> }
    \cup { <<p, "Failed">> : p \in {"Idle", "MetadataFetched",
                                    "BoundariesComputed", "TextResolved"} }

\* C14 as stated: the state of a scan changes only along the chain Idle,
\* MetadataFetched, BoundariesComputed, TextResolved, Done, one step at a
\* time, or to Failed.
C14_Original ==
  [][\A s \in Scans :
       Phase(s)' # Phase(s) => <<Phase(s), Phase(s)'>> \in Chain]_vars

\* C14: every invocation starts at Idle; the state of a scan changes only
\* one step forward along the chain, or to Failed, or from MetadataFetched
\* straight to Done, which happens exactly when the fetched paragraphs hold
\* no heading and sets the no-headings status; Done and Failed are never
\* left, and a scan that is Done without that shortcut has issued both
\* round trips.
C14_PhasesMoveForward ==
  [][\A s \in Scans :
       /\ Phase(s)' # Phase(s) =>
            \/ <<Phase(s), Phase(s)'>> \in Chain
            \/ /\ Phase(s) = "MetadataFetched"
               /\ Phase(s)' = "Done"
               /\ NoHeadingStyled(paragraphs[s])
               /\ status' = StatusNoHeadings
       /\ (Phase(s) = "MetadataFetched" /\ Phase(s)' = "BoundariesComputed") =>
            ~NoHeadingStyled(paragraphs[s])
       /\ Phase(s) \in {"Done", "Failed"} => Phase(s)' = Phase(s)]_vars

\* One scan is Done after both of its round trips and another one has
\* Failed.
C14_Witness ==
  \E s, t \in Scans :
    /\ Phase(s) = "Done"
    /\ Answers(s) = <<"ok", "ok">>
    /\ Phase(t) = "Failed"

\* The headings of a scan that carry a marker, in heading order.
Marked(hs) == SelectSeq(hs, LAMBDA h : MarkerOf(h) # "None")

\* The last n children of what the task pane showed.
LastOf(shown, n) == [k \in 1..n |-> shown[Len(shown) - n + k]]

\* C15: a scan that has ended with both round trips answered has emitted
\* as many directives as its headings carry a marker, one for each such
\* heading in order, a button for "*" and a label for "_", also when two
\* headings have the same text; it has produced one content range for each
\* Button heading and none for a Label heading or an unmarked one.
C15_OneDirectivePerMarkedHeading ==
  \A s \in Scans :
    (pc[s] = "done" /\ Answers(s) = <<"ok", "ok">>) =>
      LET marked == Marked(allHeadings[s])
          n == Len(marked)
          prepared == uiItemsToCreate[s]
          shown == outcome[s].items
      IN  /\ Len(prepared) = n
          /\ Len(shown) >= n
          /\ \A k \in 1..n :
               /\ LastOf(shown, n)[k].type = prepared[k].type
               /\ (MarkerOf(marked[k]) = "Button") <=> (prepared[k].type = "button")
               /\ (MarkerOf(marked[k]) = "Label") <=> (prepared[k].type = "label")
               /\ (prepared[k].type = "label") <=> (prepared[k].data = 0)
          /\ Len(prompts[s]) = Len(ButtonPositions(allHeadings[s]))
          /\ Len(rangesToLoad[s]) = Len(ButtonPositions(allHeadings[s]))
          /\ Len(syncLog[s][2].ranges) = Len(ButtonPositions(allHeadings[s]))
          /\ \A k, m \in 1..n :
               (k # m /\ prepared[k].type = "button" /\ prepared[m].type = "button")
                 => prepared[k].data # prepared[m].data

\* A scan has ended over two headings of the same text around an unmarked
\* heading, and has emitted two directives of the same type and text.
C15_Witness ==
  \E s \in Scans :
    /\ pc[s] = "done"
    /\ Answers(s) = <<"ok", "ok">>
    /\ Len(allHeadings[s]) = 3
    /\ MarkerOf(allHeadings[s][2]) = "None"
    /\ allHeadings[s][1].text = allHeadings[s][3].text
    /\ Len(uiItemsToCreate[s]) = 2
    /\ Directive(uiItemsToCreate[s][1]) = Directive(uiItemsToCreate[s][2])
    /\ Len(outcome[s].items) >= 2

\* The text neither starts nor ends with a whitespace character.
Tidy(t) == t = <<>> \/ (t[1] \notin Whitespace /\ t[Len(t)] \notin Whitespace)

\* What is left of t once whitespace, and only whitespace, is taken from
\* both of its ends until none is left there.
Strips(t) ==
  { SubSeq(t, a + 1, Len(t) - b) :
      <<a, b>> \in { ab \in (0..Len(t)) \X (0..Len(t)) :
                       /\ ab[1] + ab[2] <= Len(t)
                       /\ \A j \in 1..ab[1] : t[j] \in Whitespace
                       /\ \A j \in (Len(t) - ab[2] + 1)..Len(t) : t[j] \in Whitespace
                       /\ Tidy(SubSeq(t, ab[1] + 1, Len(t) - ab[2])) } }

\* C16: no text a scan has prepared or emitted starts or ends with
\* whitespace: a heading is a Button or a Label heading by the first
\* character of its text without the outer whitespace, its directive's
\* display text is that text without this character and again without outer
\* whitespace, and a button's payload, once retrieved, is the text loaded
\* for its range without outer whitespace.
C16_EmittedTextsTrimmed ==
  \A s \in Scans :
    /\ \A k \in 1..Len(container) : Tidy(container[k].text)
    /\ \A k \in 1..Len(outcome[s].items) :
         Tidy(outcome[s].items[k].text) /\ Tidy(outcome[s].items[k].payload)
    /\ \A r \in 1..Len(prompts[s]) :
         /\ Tidy(prompts[s][r].buttonText)
         /\ Tidy(prompts[s][r].textToCopy)
         /\ TextsRetrieved(s) =>
              prompts[s][r].textToCopy \in Strips(prompts[s][r]._range.text)
    /\ Queued(s) =>
         LET hs == allHeadings[s]
             directing == { i \in 1..Len(hs) :
                              \E u \in Strips(hs[i].text) :
                                u # <<>> /\ u[1] \in {"*", "_"} }
         IN  /\ Len(uiItemsToCreate[s]) = Cardinality(directing)
             /\ \A i \in directing :
                  LET k == Cardinality({ j \in directing : j <= i })
                      item == uiItemsToCreate[s][k]
                  IN  \E u \in Strips(hs[i].text) :
                        /\ item.type = IF u[1] = "*" THEN "button" ELSE "label"
                        /\ item.text \in Strips(Tail(u))
                        /\ Tidy(item.text)

\* A scan has ended with a button whose heading text had whitespace around
\* the marker and the name and whose range text had whitespace at both
\* ends of a text that is shown without it.
C16_Witness ==
  \E s \in Scans :
    /\ TextsRetrieved(s)
    /\ pc[s] = "done"
    /\ \E i \in 1..Len(allHeadings[s]) :
         /\ ~Tidy(allHeadings[s][i].text)
         /\ MarkerOf(allHeadings[s][i]) = "Button"
    /\ \E r \in 1..Len(prompts[s]) :
         /\ ~Tidy(prompts[s][r]._range.text)
         /\ prompts[s][r].textToCopy # <<>>
         /\ prompts[s][r].textToCopy # prompts[s][r]._range.text
         /\ \E k \in 1..Len(outcome[s].items) :
              outcome[s].items[k].payload = prompts[s][r].textToCopy

\* The directives the container holds, child by child.
Shown == [k \in 1..Len(container) |-> Directive(container[k])]

\* C17: whenever every started scan has finished, the container holds the
\* directive sequence of one scan of the document, or nothing (the last
\* scan to clear it emitted nothing): no directive appears twice and none
\* of an earlier scan remains beside those of a later one.
C17_ContainerHoldsOneScan ==
  (started >= 1 /\ \A s \in Scans : ~InProgress(s)) =>
    Shown \in {ExpectedDirectives(doc), <<>>}

\* The result of a finished scan, read off what it did.
ResultOf(s) ==
  IF RoundTripFailed(s) THEN "Failed"
  ELSE IF NoHeadingStyled(paragraphs[s]) THEN "NoHeadings"
  ELSE IF Marked(allHeadings[s]) = <<>> THEN "NoDirectives"
  ELSE "Directives"

StatusOf(result) ==
  CASE result = "Failed" -> StatusError
    [] result = "NoHeadings" -> StatusNoHeadings
    [] result = "NoDirectives" -> StatusNoPrompts
    [] result = "Directives" -> StatusCleared

\* C18: with every round trip answered and every ready continuation run, a
\* scan that has started eventually ends; it ends with the status of
\* exactly one of Failed, NoHeadings, NoDirectives and Directives, the one
\* its round trips and its headings call for; and whenever no scan is in
\* progress the status is not "Scanning document...".
C18_EveryScanEnds ==
  /\ \A s \in Scans : InProgress(s) ~> (pc[s] = "done")
  /\ [](\A s \in Scans :
          pc[s] = "done" => outcome[s].status = StatusOf(ResultOf(s)))
  /\ []((\A s \in Scans : ~InProgress(s)) => status # StatusScanning)

\* Two scans that ran at the same time have both ended, with different
\* results.
C18_Witness ==
  /\ started = 2
  /\ overlapped = {1, 2}
  /\ \A s \in 1..2 : pc[s] = "done"
  /\ ResultOf(1) # ResultOf(2)
  /\ status # StatusScanning

\* What a copy leaves alone: the round trips, the prepared directives, the
\* promptData objects with their texts and payloads, and the container.
ScanResultKept ==
  UNCHANGED << syncLog, pc, started, paragraphs, allHeadings, uiItemsToCreate,
               rangesToLoad, prompts, container, outcome >>

\* C19: a click on a button and the end of its write to the clipboard issue
\* no round trip and leave the directives, their texts and payloads and
\* the container as they were; only the status changes and, when a write of
\* a non-empty payload succeeds, the clipboard, which then holds the
\* payload that the scan owning the clicked button retrieved for it.  No
\* other step touches the clipboard or the copies in flight.
C19_CopyChangesStatusAndClipboardOnly ==
  [][/\ \A k \in Children :
          CopyBegin(k) =>
            /\ ScanResultKept
            /\ clipboard' = clipboard
            /\ Payload(k) # <<>> =>
                 /\ Len(copyCalls') = Len(copyCalls) + 1
                 /\ copyCalls'[Len(copyCalls')].textToCopy = Payload(k)
                 /\ copyCalls'[Len(copyCalls')].owner = container[k].owner
                 /\ copyCalls'[Len(copyCalls')].data = container[k].data
     /\ \A c \in 1..Len(copyCalls) :
          /\ ClipboardOk(c) =>
               /\ ScanResultKept
               /\ TextsRetrieved(copyCalls[c].owner)
               /\ clipboard' =
                    prompts[copyCalls[c].owner][copyCalls[c].data].textToCopy
               /\ clipboard' # <<>>
          /\ ClipboardFail(c) => ScanResultKept /\ clipboard' = clipboard
     /\ (clipboard' # clipboard \/ copyCalls' # copyCalls) => ScanResultKept
    ]_vars

\* The container holds two buttons with different payloads, and the
\* clipboard holds the payload of one of them after a copy that succeeded.
C19_Witness ==
  /\ status = StatusCopied
  /\ clipboard # <<>>
  /\ \E k, m \in Children :
       /\ IsButtonChild(k)
       /\ IsButtonChild(m)
       /\ Payload(k) = clipboard
       /\ Payload(m) # clipboard

====
